---- MODULE Spec2Model ----
(***************************************************************************)
(* A model of the DalgoLite execution engine (backend/main.py and          *)
(* backend/database.py): the node records of one transformation project    *)
(* (AI transformation steps, join operations, qualitative operations), the *)
(* SQLite warehouse tables they materialize, the warehouse metadata row,    *)
(* the pipeline execution history, and the request handlers that create    *)
(* and run nodes and projects.                                              *)
(*                                                                         *)
(* Every handler runs on one asyncio event loop and none of them suspends  *)
(* (the awaited coroutines only make blocking calls), so a handler is one   *)
(* atomic action; the loop of execute_all_transformations is modelled one  *)
(* iteration per step because each iteration commits on its own.           *)
(***************************************************************************)
EXTENDS Integers, Sequences, FiniteSets, TLC

VARIABLES
    ai_steps,        \* table ai_transformation_steps: id -> row
    joins,           \* table join_operations: id -> row
    quals,           \* table qualitative_data_operations: id -> row
    tables,          \* the SQLite data tables: table name -> contents
    warehouse_meta,  \* table transformed_data_warehouse (rows of the project)
    history,         \* table pipeline_execution_history, in insertion order
    time,            \* int(time.time()) as the qualitative runs read it
    run              \* the handler in progress and its position

vars == <<ai_steps, joins, quals, tables, warehouse_meta, history, time, run>>

----------------------------------------------------------------------------
(* Bounds of the model.                                                    *)

MaxSteps == 2        \* transformation steps that can be created
MaxJoins == 1        \* join operations that can be created
MaxQuals == 1        \* qualitative operations that can be created
MaxHistory == 2      \* pipeline runs that can be started
MaxTime == 3         \* the time after which no qualitative run starts

----------------------------------------------------------------------------
(* Optional values: Python None / SQL NULL is the empty sequence.          *)

None == <<>>
Some(v) == <<v>>
IsNone(o) == o = <<>>
Get(o) == o[1]

\* The model holds one user, one project (id 1) and one connected sheet
\* (id 1); ids 2 and up are used for requests that name a missing row.
ProjectExists(project_id) == project_id = 1
SheetExists(sheet_id) == sheet_id = 1
ProjectSheetIds == <<1>>        \* project.sheet_ids

----------------------------------------------------------------------------
(* Strings that name tables are sequences of one-character strings, so     *)
(* that the clean-up of a name is computed and not assumed.                *)

Lower(c) ==
    CASE c = "A" -> "a"
      [] c = "B" -> "b"
      [] c = "S" -> "s"
      [] c = "T" -> "t"
      [] c = "O" -> "o"
      [] OTHER -> c

\* the characters \w matches
IsWordChar(c) == c \notin {" ", "-", ".", "!"}

LowerStr(s) == [i \in 1..Len(s) |-> Lower(s[i])]

\* re.sub(r'[^\w]', '_', s)
SubNonWord(s) == [i \in 1..Len(s) |-> IF IsWordChar(s[i]) THEN s[i] ELSE "_"]

\* s.replace(' ', '_').replace('-', '_')
ReplaceSpaceDash(s) == [i \in 1..Len(s) |-> IF s[i] \in {" ", "-"} THEN "_" ELSE s[i]]

\* str(n) for the small numbers the model uses
IdStr(n) == IF n \in 0..9 THEN <<"0", "1", "2", "3", "4", "5", "6", "7", "8", "9">>[n + 1] ELSE "N"

----------------------------------------------------------------------------
(* Data: a DataFrame or SQLite table is its column list and its rows; a    *)
(* row is identified by the value of its key column.                       *)

Table(cols, rows) == [columns |-> cols, rows |-> rows]
IsEmptyDf(df) == df.rows = {}          \* DataFrame.empty

SheetData == Table(<<"id", "amt">>, {1, 2})
\* pd.DataFrame({'col1': [1, 2, 3], 'col2': ['a', 'b', 'c']})
TestDataFrame == Table(<<"col1", "col2">>, {1, 2, 3})

\* f"sheet_{sheet.id}_{title}" cleaned, for the sheet titled "S 1"
SheetTableName(sheet_id) ==
    SubNonWord(<<"sheet_", IdStr(sheet_id), "_">> \o ReplaceSpaceDash(LowerStr(<<"S", " ", "1">>)))

Ref(type, id) == [type |-> type, id |-> id]

HasTable(tbls, name) == name \in DOMAIN tbls

\* to_sql(..., if_exists='append'): the old rows stay
ToSqlAppend(tbls, name, df) ==
    [n \in DOMAIN tbls \cup {name} |->
        IF n = name
        THEN IF HasTable(tbls, name)
             THEN Table(df.columns, tbls[name].rows \cup df.rows)
             ELSE df
        ELSE tbls[n]]

\* DataFrame.to_sql(name, engine, if_exists='replace')
ToSql(tbls, name, df) == [n \in DOMAIN tbls \cup {name} |-> IF n = name THEN df ELSE tbls[n]]

\* pd.read_sql_table(name, engine): None stands for the exception it raises
\* on a missing table
ReadSqlTable(tbls, name) == IF HasTable(tbls, name) THEN Some(tbls[name]) ELSE None

get_warehouse_sheet_data(tbls, sheet_id) ==
    IF HasTable(tbls, SheetTableName(sheet_id))
    THEN tbls[SheetTableName(sheet_id)]
    ELSE Table(<<>>, {})       \* the Google fallback without credentials

fetch_full_sheet_data(tbls, sheet_id) == get_warehouse_sheet_data(tbls, sheet_id)

\* `getattr(row, 'actual_table_name', None) or row.output_table_name`, read
\* when the name is truthy
StoredTableName(row) ==
    IF "actual_table_name" \in DOMAIN row /\ ~IsNone(row.actual_table_name)
       /\ Get(row.actual_table_name) # <<>>
    THEN row.actual_table_name
    ELSE IF ~IsNone(row.output_table_name) /\ Get(row.output_table_name) # <<>>
         THEN row.output_table_name
         ELSE None

\* a lookup of the row that does not ask for its status
AnyStatusRow(rows, id) == id \in DOMAIN rows

CompletedRow(rows, id) == id \in DOMAIN rows /\ rows[id].status = "completed"

\* load_table_data: the DataFrame of a reference, or None
load_table_data(S, J, Q, tbls, table_id, table_type) ==
    CASE table_type = "sheet" ->
            IF SheetExists(table_id) THEN Some(fetch_full_sheet_data(tbls, table_id)) ELSE None
      [] table_type = "transformation" ->
            IF CompletedRow(S, table_id) /\ ~IsNone(StoredTableName(S[table_id]))
            THEN ReadSqlTable(tbls, Get(StoredTableName(S[table_id])))
            ELSE None
      [] table_type = "join" ->
            IF CompletedRow(J, table_id) /\ ~IsNone(StoredTableName(J[table_id]))
            THEN ReadSqlTable(tbls, Get(StoredTableName(J[table_id])))
            ELSE None
      [] table_type = "qualitative" ->
            IF CompletedRow(Q, table_id) /\ ~IsNone(StoredTableName(Q[table_id]))
            THEN ReadSqlTable(tbls, Get(StoredTableName(Q[table_id])))
            ELSE None
      [] OTHER -> None

RECURSIVE LoadRefs(_, _, _, _, _)
\* the loop of load_upstream_data: the references that loaded a non-empty
\* DataFrame, in order, each with its binding name and its data
LoadRefs(S, J, Q, tbls, refs) ==
    IF refs = <<>> THEN <<>>
    ELSE LET r == Head(refs)
             df == load_table_data(S, J, Q, tbls, r.id, r.type)
             rest == LoadRefs(S, J, Q, tbls, Tail(refs))
         IN IF ~IsNone(df) /\ ~IsEmptyDf(Get(df))
            THEN <<[name |-> r, df |-> Get(df)]>> \o rest
            ELSE rest

load_upstream_data(S, J, Q, tbls, step) == LoadRefs(S, J, Q, tbls, step.upstream_tables)

----------------------------------------------------------------------------
(* The warehouse materializer.                                             *)

\* hashlib.md5(df.to_string().encode()).hexdigest(): a digest of the whole
\* content, here the content itself
DataHash(df) == df

MetaOfProject(meta, project_id) ==
    SelectSeq(meta, LAMBDA e : e.project_id = project_id)

\* the metadata half of store_in_warehouse: the first row of the project is
\* updated in place (its table_name is left alone), else a row is added
UpdateWarehouseMeta(meta, df, table_name, project_id) ==
    IF MetaOfProject(meta, project_id) # <<>>
    THEN LET first == CHOOSE i \in 1..Len(meta) :
                        /\ meta[i].project_id = project_id
                        /\ \A j \in 1..(i - 1) : meta[j].project_id # project_id
         IN [meta EXCEPT ![first].row_count = Cardinality(df.rows),
                         ![first].column_schema = df.columns,
                         ![first].data_hash = DataHash(df)]
    ELSE Append(meta, [project_id |-> project_id,
                       table_name |-> table_name,
                       row_count |-> Cardinality(df.rows),
                       column_schema |-> df.columns,
                       data_hash |-> DataHash(df)])

\* db.commit() of the metadata: table_name is unique, so the insert of a
\* row for a project without one raises IntegrityError when another
\* project's row has the name; the exception is re-raised
CommitWarehouseMeta(meta, df, table_name, project_id) ==
    IF /\ MetaOfProject(meta, project_id) = <<>>
       /\ \E i \in 1..Len(meta) : meta[i].table_name = table_name
    THEN [meta |-> meta, raised |-> TRUE]
    ELSE [meta |-> UpdateWarehouseMeta(meta, df, table_name, project_id), raised |-> FALSE]

\* to_sql writes through the engine, on a connection of its own, before the
\* metadata is committed on the session
store_in_warehouse(tbls, meta, df, table_name, project_id) ==
    LET committed == CommitWarehouseMeta(meta, df, table_name, project_id)
    IN [tables |-> ToSql(tbls, table_name, df),
        meta |-> committed.meta,
        raised |-> committed.raised]

----------------------------------------------------------------------------
(* The transformation executor.  The generated code of a step is one of a  *)
(* few programs over the namespace's df.                                   *)

Codes == {"keep", "empty", "raise", "shift", "raise_attribute"}

\* The generated code is a sequence of statements over the names of the
\* namespace.  A name is bound to an object and several names can be bound
\* to one object: exec_globals binds df and the first upstream table's name
\* to the same DataFrame.
\* str(e) of the exception the handler catches: the executor wraps every
\* exception of the code but an AttributeError, which it raises as it is
ExecErrorMessage == "Error executing generated transformation code"

Assign(target, f, source) == [op |-> "assign", target |-> target, f |-> f, source |-> source]
SetItem(target, f) == [op |-> "setitem", target |-> target, f |-> f, source |-> target]
Del(target) == [op |-> "del", target |-> target, f |-> "", source |-> target]
Raise == [op |-> "raise", target |-> "", f |-> "", source |-> ""]
\* raise AttributeError(): an exception whose str() is empty
RaiseAttributeError == [op |-> "raise_attribute", target |-> "", f |-> "", source |-> ""]

\* the pandas expressions of the statements
ApplyOp(f, t) ==
    CASE f = "head" -> Table(t.columns, {r \in t.rows : \A q \in t.rows : r <= q})  \* x.head(1)
      [] f = "none" -> Table(t.columns, {})                      \* x[x.id < 0]
      [] f = "shift" -> Table(t.columns, {r + 10 : r \in t.rows}) \* x['id'] + 10
      [] OTHER -> t

\* f'{table_type}_{table_id}', the name of an upstream table in the namespace
RefName(r) == r.type \o "_" \o IdStr(r.id)

\* exec_globals = {'df': df, ..., **sheet_data}: the objects are the loaded
\* tables, or the one stand-in frame; df is object 1
ExecGlobals(sheet_data) ==
    IF sheet_data = <<>>
    THEN [ns |-> ("df" :> 1), heap |-> <<TestDataFrame>>, raised |-> FALSE, error |-> ""]
    ELSE [ns |-> [n \in {"df"} \cup {RefName(sheet_data[i].name) : i \in DOMAIN sheet_data} |->
                    IF n = "df" THEN 1
                    ELSE CHOOSE i \in DOMAIN sheet_data : RefName(sheet_data[i].name) = n],
          heap |-> [i \in DOMAIN sheet_data |-> sheet_data[i].df],
          raised |-> FALSE, error |-> ""]

\* one statement of the code
ExecStatement(st, env) ==
    LET bound(n) == n \in DOMAIN env.ns
        error == [env EXCEPT !.raised = TRUE, !.error = ExecErrorMessage]
    IN  CASE st.op = "assign" ->
               IF ~bound(st.source) THEN error                   \* NameError
               ELSE IF st.f = "same"                             \* target = source
               THEN [env EXCEPT !.ns = (st.target :> env.ns[st.source]) @@ env.ns]
               ELSE [env EXCEPT                                  \* target = source.f()
                       !.heap = Append(env.heap, ApplyOp(st.f, env.heap[env.ns[st.source]])),
                       !.ns = (st.target :> (Len(env.heap) + 1)) @@ env.ns]
          [] st.op = "setitem" ->                                \* target['id'] = ...
               IF ~bound(st.target) THEN error
               ELSE [env EXCEPT !.heap[env.ns[st.target]] = ApplyOp(st.f, @)]
          [] st.op = "del" ->                                    \* del target
               IF ~bound(st.target) THEN error
               ELSE [env EXCEPT !.ns = [n \in DOMAIN env.ns \ {st.target} |-> env.ns[n]]]
          [] st.op = "raise_attribute" ->                        \* re-raised as it is
               [env EXCEPT !.raised = TRUE, !.error = ""]
          [] OTHER -> error                                      \* df['nope']

RECURSIVE ExecProgram(_, _)
\* exec(code, exec_globals): an exception ends the code
ExecProgram(program, env) ==
    IF program = <<>> \/ env.raised THEN env
    ELSE ExecProgram(Tail(program), ExecStatement(Head(program), env))

\* a read-back of the name result: what the code assigned to it, else df
ReadBackResult(env) ==
    IF "result" \in DOMAIN env.ns THEN env.heap[env.ns["result"]] ELSE env.heap[1]

\* exec_globals.get('df', df): the object bound to df, else the local df
ReadBack(env) == IF "df" \in DOMAIN env.ns THEN env.heap[env.ns["df"]] ELSE env.heap[1]

\* the statements of the codes of the steps
CodeProgram(code) ==
    CASE code = "keep"  -> <<>>
      [] code = "empty" -> <<Assign("df", "none", "df")>>     \* df = df[df.id < 0]
      [] code = "shift" -> <<SetItem("df", "shift")>>         \* df['id'] = df['id'] + 10
      [] code = "raise_attribute" -> <<RaiseAttributeError>>  \* raise AttributeError()
      [] OTHER -> <<Raise>>                                   \* df['nope']

\* exec(step.generated_code, exec_globals) followed by exec_globals.get('df', df)
ExecCode(code, df) ==
    LET env == ExecProgram(CodeProgram(code),
                           [ns |-> ("df" :> 1), heap |-> <<df>>, raised |-> FALSE,
                            error |-> ""])
    IN  [raised |-> env.raised, df |-> IF env.raised THEN df ELSE ReadBack(env),
         error |-> env.error]


\* f"transform_step_{id}_{step_name.lower().replace(' ', '_').replace('-', '_')}"
\* passed through re.sub(r'[^\w]', '_', ...)
DefaultStepTableName(step_id, step) ==
    SubNonWord(<<"transform_step_", IdStr(step_id), "_">>
               \o ReplaceSpaceDash(LowerStr(step.step_name)))

\* the table name execute_transformation_step writes to
StepTableName(step_id, step) ==
    IF ~IsNone(step.output_table_name) /\ Get(step.output_table_name) # <<>>
    THEN SubNonWord(LowerStr(Get(step.output_table_name)))
    ELSE DefaultStepTableName(step_id, step)

\* the upstream data bound to df: the first loaded table, else the test frame
MainDf(sheet_data) == IF sheet_data # <<>> THEN sheet_data[1].df ELSE TestDataFrame

\* a run that starts without recording it on the row
StepStartUnrecorded(step) == [step EXCEPT !.error_message = None]

\* the row of a step at the start of a run
StepSetRunning(step) == [step EXCEPT !.status = "running", !.error_message = None]

\* the row of a step after a successful run
StepSetCompleted(step, result_df) ==
    [step EXCEPT !.status = "completed", !.output_columns = Some(result_df.columns)]

\* the row of a step after a failed run
StepSetFailed(step, msg) == [step EXCEPT !.status = "failed", !.error_message = Some(msg)]

----------------------------------------------------------------------------
(* The join evaluator.                                                     *)

KeyPair(l, r) == [left |-> l, right |-> r]

InSeq(x, seq) == \E i \in 1..Len(seq) : seq[i] = x

\* the first key pair whose column is missing, as execute_join's validation
\* loop finds it: <<side, column>>, or <<>> when every column exists
RECURSIVE MissingJoinColumn(_, _, _)
MissingJoinColumn(join_keys, left_df, right_df) ==
    IF join_keys = <<>> THEN <<>>
    ELSE LET key == Head(join_keys)
         IN IF ~InSeq(key.left, left_df.columns) THEN <<"left", key.left>>
            ELSE IF ~InSeq(key.right, right_df.columns) THEN <<"right", key.right>>
            ELSE MissingJoinColumn(Tail(join_keys), left_df, right_df)

\* a key column both sides name alike is kept once by pd.merge
SharedKey(c, join_keys) == \E i \in 1..Len(join_keys) : join_keys[i].left = c /\ join_keys[i].right = c

\* the columns of pd.merge(..., suffixes=('_left', '_right'))
MergeColumns(lc, rc, join_keys) ==
    LET L == [i \in 1..Len(lc) |->
                IF InSeq(lc[i], rc) /\ ~SharedKey(lc[i], join_keys) THEN lc[i] \o "_left" ELSE lc[i]]
        R == [i \in 1..Len(rc) |->
                IF InSeq(rc[i], lc) THEN rc[i] \o "_right" ELSE rc[i]]
        keep == SelectSeq([i \in 1..Len(rc) |-> [c |-> rc[i], n |-> R[i]]],
                          LAMBDA x : ~SharedKey(x.c, join_keys))
    IN L \o [i \in 1..Len(keep) |-> keep[i].n]

\* how_mapping.get(join_type, 'inner')
HowMapping(join_type) ==
    CASE join_type = "inner" -> "inner"
      [] join_type = "left" -> "left"
      [] join_type = "right" -> "right"
      [] join_type = "full" -> "outer"
      [] OTHER -> "inner"

\* the rows of the merge; a row of either side is its key value
MergeRows(lr, rr, how) ==
    CASE how = "inner" -> lr \cap rr
      [] how = "left" -> lr
      [] how = "right" -> rr
      [] OTHER -> lr \cup rr

PdMerge(left_df, right_df, join_keys, how) ==
    Table(MergeColumns(left_df.columns, right_df.columns, join_keys),
          MergeRows(left_df.rows, right_df.rows, how))

\* JoinRepository.update_join_status: a field is written only when its
\* argument is truthy
update_join_status(J, join_id, status, error_message, output_columns) ==
    IF join_id \in DOMAIN J
    THEN [J EXCEPT ![join_id] =
            [@ EXCEPT !.status = status,
                      !.error_message = IF ~IsNone(error_message) /\ Get(error_message) # ""
                                        THEN error_message ELSE @,
                      !.output_columns = IF ~IsNone(output_columns) /\ Get(output_columns) # <<>>
                                         THEN output_columns ELSE @]]
    ELSE J

\* ', '.join(columns)
RECURSIVE JoinStrings(_)
JoinStrings(cols) ==
    IF cols = <<>> THEN ""
    ELSE IF Len(cols) = 1 THEN cols[1]
    ELSE cols[1] \o ", " \o JoinStrings(Tail(cols))

CouldNotLoad(side, type) ==
    "Could not load " \o side \o " table (" \o type \o "). Please ensure it exists and has data."

\* a message that names the column and the side only
ColumnNotFoundShort(side, col, df) ==
    "Column '" \o col \o "' not found in " \o side \o " table"

ColumnNotFound(side, col, df) ==
    "Column '" \o col \o "' not found in " \o side \o " table. Available columns: "
        \o JoinStrings(df.columns)

\* what a handler answers: the HTTP status code and the status field of the
\* body (or "error" for a raised HTTPException)
Resp(op, code, status) == [code |-> code, status |-> status]

\* The body of execute_join.  db is "Session" when FastAPI injected the
\* session and "Depends" when the function was called without it, in which
\* case the parameter holds its default, a Depends marker with no query().
execute_join(S, J, Q, tbls, join_id, db) ==
    LET unchanged(code, status) ==
            [joins |-> J, tables |-> tbls, resp |-> Resp("execute_join", code, status), row_count |-> 0]
        failed(msg) ==
            [joins |-> update_join_status(J, join_id, "failed", Some(msg), None),
             tables |-> tbls,
             resp |-> Resp("execute_join", 400, "failed"),
             row_count |-> 0]
    IN  IF db # "Session" THEN unchanged(500, "error")     \* AttributeError in get_join_by_id
        ELSE IF join_id \notin DOMAIN J THEN unchanged(404, "error")
        ELSE
        LET join_op == J[join_id]
            left_df == load_table_data(S, J, Q, tbls, join_op.left_table.id, join_op.left_table.type)
            right_df == load_table_data(S, J, Q, tbls, join_op.right_table.id, join_op.right_table.type)
        IN  IF IsNone(left_df) \/ IsEmptyDf(Get(left_df))
            THEN failed(CouldNotLoad("left", join_op.left_table.type))
            ELSE IF IsNone(right_df) \/ IsEmptyDf(Get(right_df))
            THEN failed(CouldNotLoad("right", join_op.right_table.type))
            ELSE
            LET missing == MissingJoinColumn(join_op.join_keys, Get(left_df), Get(right_df))
                result_df == PdMerge(Get(left_df), Get(right_df), join_op.join_keys,
                                     HowMapping(join_op.join_type))
            IN  IF missing # <<>>
                THEN failed(ColumnNotFound(missing[1], missing[2],
                                IF missing[1] = "left" THEN Get(left_df) ELSE Get(right_df)))
                ELSE IF IsNone(join_op.output_table_name)
                THEN failed("to_sql: no table name")
                ELSE [joins |-> update_join_status(J, join_id, "completed", None,
                                                   Some(result_df.columns)),
                      tables |-> ToSql(tbls, Get(join_op.output_table_name), result_df),
                      resp |-> Resp("execute_join", 200, "completed"),
                      row_count |-> Cardinality(result_df.rows)]

----------------------------------------------------------------------------
\* created_at of the next step or join: the rows are stamped in the order
\* of their creation
Now == Len(ai_steps) + Len(joins) + 1

(* State after start-up: the project and its sheet exist, the sheet's      *)
(* data is in the warehouse, nothing else has been created.                *)

IdleRun ==
    [op |-> "idle", id |-> 0, phase |-> "", operations |-> <<>>, i |-> 0,
     executed_steps |-> <<>>, failed_steps |-> <<>>]

\* a handler that would give up the event loop while it is in progress: the
\* next request could be taken at any time
LoopYielded == TRUE

\* no handler is in progress.  Every handler is a coroutine on the one
\* event loop of uvicorn.run(app) and none awaits anything that suspends,
\* so the next request is taken when the handler in progress has ended.
Idle == run.op = "idle"

Init ==
    /\ ai_steps = <<>>
    /\ joins = <<>>
    /\ quals = <<>>
    /\ tables = (SheetTableName(1) :> SheetData)
    /\ warehouse_meta = <<>>
    /\ history = <<>>
    /\ time = 1
    /\ run = IdleRun

----------------------------------------------------------------------------
(* The requests the model draws.                                           *)

StepName == <<"S", " ", "x">>

StepRequest(name, code, upstream) ==
    [output_table_name |-> name, generated_code |-> code, upstream_tables |-> upstream]

\* The create requests for transformation steps.  The custom output table
\* names are: none, one that the clean-up of names leaves alone (<<"t">>)
\* and one that it changes (<<"T", " ">>); the upstream references name the
\* sheet or a step (itself, an earlier or a later one).
StepRequests ==
    {StepRequest(Some(<<"t">>), "keep", <<Ref("sheet", 1)>>),
     StepRequest(Some(<<"T", " ">>), "keep", <<Ref("sheet", 1)>>),
     StepRequest(Some(<<"t">>), "empty", <<Ref("sheet", 1)>>),
     StepRequest(Some(<<"t">>), "raise", <<Ref("sheet", 1)>>),
     StepRequest(None, "keep", <<Ref("transformation", 1)>>),
     StepRequest(Some(<<"t">>), "keep", <<Ref("transformation", 2)>>)}

JoinRequest(left, right, type, keys, name) ==
    [left_table |-> left, right_table |-> right, join_type |-> type, join_keys |-> keys,
     output_table_name |-> name]

JoinRequests ==
    {JoinRequest(Ref("sheet", 1), Ref("sheet", 1), "inner", <<KeyPair("id", "id")>>, None),
     JoinRequest(Ref("sheet", 1), Ref("transformation", 1), "left", <<KeyPair("id", "id")>>,
                 Some(<<"J", " ">>)),
     JoinRequest(Ref("sheet", 1), Ref("sheet", 1), "inner", <<KeyPair("amout", "id")>>, None),
     JoinRequest(Ref("sheet", 1), Ref("sheet", 1), "inner",
                 <<KeyPair("id", "id"), KeyPair("amt", "amout")>>, None)}

----------------------------------------------------------------------------
(* create_transformation_step: the row is stored in status draft and is    *)
(* not executed.                                                           *)

NewStep(request, now) ==
    [step_name |-> StepName,
     output_table_name |-> request.output_table_name,
     generated_code |-> request.generated_code,
     upstream_tables |-> request.upstream_tables,
     status |-> "draft",
     error_message |-> None,
     output_columns |-> Some(<<>>),     \* estimated_output_columns
     created_at |-> now]

create_transformation_step_of(requests) ==
    /\ Idle
    /\ Len(ai_steps) < MaxSteps
    /\ \E request \in requests :
          ai_steps' = Append(ai_steps, NewStep(request, Now))
    /\ UNCHANGED <<joins, quals, tables, warehouse_meta, history, time, run>>

create_transformation_step == create_transformation_step_of(StepRequests)

----------------------------------------------------------------------------
(* create_join and JoinRepository.create_join.                             *)

\* the output table name create_join stores
JoinTableName(output_table_name, project_id, now) ==
    IF IsNone(output_table_name) \/ Get(output_table_name) = <<>>
    THEN Some(<<"join_", IdStr(project_id), "_", IdStr(now)>>)
    ELSE Some(SubNonWord(LowerStr(Get(output_table_name))))

NewJoin(request, now) ==
    [left_table |-> request.left_table,
     right_table |-> request.right_table,
     join_type |-> request.join_type,
     join_keys |-> request.join_keys,
     status |-> "pending",
     error_message |-> None,
     output_table_name |-> JoinTableName(request.output_table_name, 1, now),
     output_columns |-> None,
     created_at |-> now]

Loadable(ref) ==
    LET df == load_table_data(ai_steps, joins, quals, tables, ref.id, ref.type)
    IN ~IsNone(df) /\ ~IsEmptyDf(Get(df))

create_join_of(requests) ==
    /\ Idle
    /\ Len(joins) < MaxJoins
    /\ \E request \in requests :
          IF Loadable(request.left_table) /\ Loadable(request.right_table)
          THEN joins' = Append(joins, NewJoin(request, Now))
          ELSE UNCHANGED joins                  \* HTTP 404
    /\ UNCHANGED <<ai_steps, quals, tables, warehouse_meta, history, time, run>>

create_join == create_join_of(JoinRequests)

----------------------------------------------------------------------------
(* execute_transformation_step: run one step.  The status running is       *)
(* committed before the step's data is loaded.                             *)

execute_transformation_step_begin ==
    /\ Idle
    /\ \E step_id \in 1..(MaxSteps + 1) :
          IF step_id \in DOMAIN ai_steps
          THEN /\ ai_steps' = [ai_steps EXCEPT ![step_id] = StepSetRunning(@)]
               /\ run' = [IdleRun EXCEPT !.op = "execute_transformation_step", !.id = step_id]
          ELSE UNCHANGED <<ai_steps, run>>      \* HTTP 404
    /\ UNCHANGED <<joins, quals, tables, warehouse_meta, history, time>>

\* the outcome of the body of a step run, from the data loaded to the row
\* and the tables written; table_name is the name the caller derived
RunStepBody(S, J, Q, tbls, meta, step_id, table_name) ==
    LET step == S[step_id]
        sheet_data == load_upstream_data(S, J, Q, tbls, step)
        ex == ExecCode(step.generated_code, MainDf(sheet_data))
        stored == IF ~IsEmptyDf(ex.df)
                  THEN store_in_warehouse(tbls, meta, ex.df, table_name, 1)
                  ELSE [tables |-> tbls, meta |-> meta, raised |-> FALSE]
    IN  IF ex.raised
        THEN [raised |-> TRUE, steps |-> S, tables |-> tbls, meta |-> meta,
              error |-> ex.error]
        ELSE IF stored.raised
        THEN [raised |-> TRUE, steps |-> S, tables |-> stored.tables, meta |-> stored.meta,
              error |-> "UNIQUE constraint failed"]
        ELSE [raised |-> FALSE, error |-> "",
              steps |-> [S EXCEPT ![step_id] = StepSetCompleted(@, ex.df)],
              tables |-> stored.tables,
              meta |-> stored.meta]

execute_transformation_step_end ==
    /\ run.op = "execute_transformation_step"
    /\ LET step_id == run.id
           out == RunStepBody(ai_steps, joins, quals, tables, warehouse_meta, step_id,
                              StepTableName(step_id, ai_steps[step_id]))
       IN  IF out.raised
           THEN /\ ai_steps' = [ai_steps EXCEPT ![step_id] = StepSetFailed(@, out.error)]
                /\ tables' = out.tables
                /\ warehouse_meta' = out.meta
           ELSE /\ ai_steps' = out.steps
                /\ tables' = out.tables
                /\ warehouse_meta' = out.meta
    /\ run' = IdleRun
    /\ UNCHANGED <<joins, quals, history, time>>

----------------------------------------------------------------------------
(* POST /projects/{project_id}/joins/{join_id}/execute                     *)

execute_join_request ==
    /\ Idle
    /\ \E join_id \in 1..(MaxJoins + 1) :
          LET out == execute_join(ai_steps, joins, quals, tables, join_id, "Session")
          IN /\ joins' = out.joins
             /\ tables' = out.tables
    /\ UNCHANGED <<ai_steps, quals, warehouse_meta, history, time, run>>

----------------------------------------------------------------------------
(* Qualitative (text-analytics) operations.  The repository and the table  *)
(* row are not part of database.py as given; they are modelled after the   *)
(* node record of the data model and after JoinRepository.                 *)

QualRequest(source, column, name) ==
    [source_table |-> source, qualitative_column |-> column, output_table_name |-> name]

QualRequests ==
    {QualRequest(Ref("sheet", 1), "amt", None),
     QualRequest(Ref("transformation", 1), "amt", Some(<<"Q", " ">>))}

\* get_table_columns: the columns of a reference, <<>> when it has none
get_table_columns(S, J, Q, tbls, table_id, table_type) ==
    LET row_name(rows) == IF CompletedRow(rows, table_id)
                          THEN StoredTableName(rows[table_id]) ELSE None
        table_name == CASE table_type = "transformation" -> row_name(S)
                        [] table_type = "join" -> row_name(J)
                        [] table_type = "qualitative" -> row_name(Q)
                        [] OTHER -> None
    IN  IF table_type = "sheet"
        THEN IF SheetExists(table_id) THEN SheetData.columns ELSE <<>>
        ELSE IF ~IsNone(table_name) /\ HasTable(tbls, Get(table_name))
             THEN tbls[Get(table_name)].columns
             ELSE <<>>

\* QualitativeDataRepository.create_qualitative_operation
NewQual(request) ==
    [source_table |-> request.source_table,
     qualitative_column |-> request.qualitative_column,
     analysis_type |-> "sentiment",
     output_table_name |-> request.output_table_name,
     actual_table_name |-> None,
     status |-> "draft",
     error_message |-> None,
     output_columns |-> None]

\* QualitativeDataRepository.update_qualitative_status
update_qualitative_status(Q, operation_id, status, error_message, actual_table_name, output_columns) ==
    IF operation_id \in DOMAIN Q
    THEN [Q EXCEPT ![operation_id] =
            [@ EXCEPT !.status = status,
                      !.error_message = IF ~IsNone(error_message) THEN error_message ELSE @,
                      !.actual_table_name = IF ~IsNone(actual_table_name)
                                            THEN actual_table_name ELSE @,
                      !.output_columns = IF ~IsNone(output_columns) THEN output_columns ELSE @]]
    ELSE Q

create_qualitative_data_operation_of(requests) ==
    /\ Idle
    /\ Len(quals) < MaxQuals
    /\ \E request \in requests :
          LET available_columns ==
                get_table_columns(ai_steps, joins, quals, tables,
                                  request.source_table.id, request.source_table.type)
          IN  IF available_columns = <<>>
              THEN UNCHANGED quals              \* HTTP 404
              ELSE IF ~InSeq(request.qualitative_column, available_columns)
              THEN UNCHANGED quals              \* HTTP 400
              ELSE quals' = Append(quals, NewQual(request))
    /\ UNCHANGED <<ai_steps, joins, tables, warehouse_meta, history, time, run>>

create_qualitative_data_operation == create_qualitative_data_operation_of(QualRequests)

\* the table name execute_qualitative_data_operation writes to; now is
\* int(time.time())
QualTableName(operation_id, operation, now) ==
    IF ~IsNone(operation.output_table_name) /\ Get(operation.output_table_name) # <<>>
    THEN SubNonWord(LowerStr(Get(operation.output_table_name)))
    ELSE <<"qualitative_", operation.analysis_type, "_", IdStr(operation_id), "_", IdStr(now)>>

\* the cells of a frame that are null or blank: a frame without the field
\* has none
BlankCells(df) == IF "blank" \in DOMAIN df THEN df.blank ELSE {}

\* valid_mask: the rows whose text is neither null nor blank
ValidRows(df, text_column) == {r \in df.rows : <<r, text_column>> \notin BlankCells(df)}

\* a message that does not name the column
NoValidTextAtAll(text_column) == "No valid text data found"

\* the message for a text column without any text
NoValidText(text_column) ==
    "No valid text data found in column '" \o text_column
        \o "'. All values are null or empty."

\* QualitativeDataService.analyze_qualitative_data for a sentiment analysis
\* whose completion calls succeed (llm_ok) or raise; calls is the number of
\* batches handed to the completion service
analyze_qualitative_data(df, text_column, llm_ok) ==
    IF ~InSeq(text_column, df.columns)
    THEN [success |-> FALSE, error |-> "Column '" \o text_column \o "' not found in data",
          output_data |-> df, calls |-> 0]
    ELSE IF ValidRows(df, text_column) = {}
    THEN [success |-> FALSE, error |-> NoValidText(text_column),
          output_data |-> df, calls |-> 0]
    ELSE IF ~llm_ok
    THEN [success |-> FALSE, error |-> "completion call failed", output_data |-> df,
          calls |-> 1]
    ELSE [success |-> TRUE, error |-> "",
          output_data |-> Table(df.columns \o <<"sentiment_label", "sentiment_confidence">>,
                                ValidRows(df, text_column)),
          calls |-> 1]

execute_qualitative_data_operation_begin ==
    /\ Idle
    /\ time < MaxTime
    /\ \E operation_id \in 1..(MaxQuals + 1) :
          IF operation_id \in DOMAIN quals
          THEN /\ quals' = update_qualitative_status(quals, operation_id, "running",
                                                     None, None, None)
               /\ run' = [IdleRun EXCEPT !.op = "execute_qualitative_data_operation",
                                         !.id = operation_id]
          ELSE UNCHANGED <<quals, run>>         \* HTTP 404
    /\ UNCHANGED <<ai_steps, joins, tables, warehouse_meta, history, time>>

execute_qualitative_data_operation_end ==
    /\ run.op = "execute_qualitative_data_operation"
    /\ \E llm_ok \in BOOLEAN :
        LET operation_id == run.id
            operation == quals[operation_id]
            source_df == load_table_data(ai_steps, joins, quals, tables,
                                         operation.source_table.id, operation.source_table.type)
            fail(msg) ==
                /\ quals' = update_qualitative_status(quals, operation_id, "failed",
                                                      Some(msg), None, None)
                /\ UNCHANGED tables            \* HTTP 500
        IN  IF IsNone(source_df) \/ IsEmptyDf(Get(source_df))
            THEN fail("No data available for analysis")
            ELSE IF ~InSeq(operation.qualitative_column, Get(source_df).columns)
            THEN fail("Column '" \o operation.qualitative_column \o "' not found. Available: "
                      \o JoinStrings(Get(source_df).columns))
            ELSE
            LET analysis_result ==
                    analyze_qualitative_data(Get(source_df), operation.qualitative_column, llm_ok)
                output_table_name == QualTableName(operation_id, operation, time)
            IN  IF ~analysis_result.success
                THEN fail(analysis_result.error)
                ELSE /\ tables' = ToSql(tables, output_table_name, analysis_result.output_data)
                     /\ quals' = update_qualitative_status(
                                     quals, operation_id, "completed", None,
                                     Some(output_table_name),
                                     Some(analysis_result.output_data.columns))
    /\ run' = IdleRun
    /\ time' = time + 1
    /\ UNCHANGED <<ai_steps, joins, warehouse_meta, history>>

----------------------------------------------------------------------------
(* execute_all_transformations: POST /projects/{project_id}/execute-all    *)

Operation(type, id, created_at) == [type |-> type, id |-> id, created_at |-> created_at]

\* list.sort(key=created_at): a stable insertion sort
RECURSIVE SortByCreatedAt(_)
SortByCreatedAt(ops) ==
    IF ops = <<>> THEN <<>>
    ELSE LET rest == SortByCreatedAt(Tail(ops))
             x == Head(ops)
             before == SelectSeq(rest, LAMBDA o : o.created_at < x.created_at)
             after == SelectSeq(rest, LAMBDA o : o.created_at >= x.created_at)
         IN before \o <<x>> \o after

\* the steps in the order of the query (execution_order is 0 in every row,
\* so in the order of their ids)
StepOperations(S) == [i \in 1..Len(S) |-> Operation("transformation", i, S[i].created_at)]

\* get_joins_by_project: order_by(created_at.desc())
JoinOperations(J) ==
    [i \in 1..Len(J) |-> Operation("join", Len(J) + 1 - i, J[Len(J) + 1 - i].created_at)]

\* the list of operations execute_all_transformations walks: steps and
\* joins only, by creation time
BuildOperations(S, J) == SortByCreatedAt(StepOperations(S) \o JoinOperations(J))

execute_all_begin ==
    /\ Idle
    /\ \E project_id \in 1..2 :
          IF ProjectExists(project_id)
          THEN run' = [IdleRun EXCEPT
                          !.op = "execute_all_transformations",
                          !.operations = BuildOperations(ai_steps, joins),
                          !.i = 1,
                          !.phase = IF ai_steps = <<>> /\ joins = <<>> THEN "returned" ELSE "loop"]
          ELSE UNCHANGED run                    \* HTTP 404
    /\ UNCHANGED <<ai_steps, joins, quals, tables, warehouse_meta, history, time>>

\* the head of one iteration: a step is set running and committed; a join
\* is executed by calling execute_join(project_id, join.id, db), which
\* leaves the db parameter of execute_join at its default
execute_all_iterate ==
    /\ run.op = "execute_all_transformations"
    /\ run.phase = "loop"
    /\ run.i <= Len(run.operations)
    /\ LET operation == run.operations[run.i]
       IN  IF operation.type = "transformation"
           THEN /\ ai_steps' = [ai_steps EXCEPT ![operation.id] = StepSetRunning(@)]
                /\ run' = [run EXCEPT !.phase = "running"]
                /\ UNCHANGED <<joins, tables>>
           ELSE LET out == execute_join(ai_steps, joins, quals, tables, operation.id, "Depends")
                IN /\ joins' = out.joins
                   /\ tables' = out.tables
                   /\ run' = IF out.resp.code = 200
                             THEN [run EXCEPT !.i = @ + 1,
                                              !.executed_steps = Append(@, operation)]
                             ELSE [run EXCEPT !.i = @ + 1,
                                              !.failed_steps = Append(@, operation)]
                   /\ UNCHANGED ai_steps
    /\ UNCHANGED <<quals, warehouse_meta, history, time>>

\* the rest of the iteration of a step: an exception of the step's code
\* leaves the loop and the handler (HTTP 500)
execute_all_step_end ==
    /\ run.op = "execute_all_transformations"
    /\ run.phase = "running"
    /\ LET operation == run.operations[run.i]
           out == RunStepBody(ai_steps, joins, quals, tables, warehouse_meta, operation.id,
                              DefaultStepTableName(operation.id, ai_steps[operation.id]))
       IN  IF out.raised
           THEN /\ run' = [run EXCEPT !.phase = "raised"]
                /\ tables' = out.tables
                /\ warehouse_meta' = out.meta
                /\ UNCHANGED ai_steps
           ELSE /\ ai_steps' = out.steps
                /\ tables' = out.tables
                /\ warehouse_meta' = out.meta
                /\ run' = [run EXCEPT !.phase = "loop", !.i = @ + 1,
                                      !.executed_steps = Append(@, operation)]
    /\ UNCHANGED <<joins, quals, history, time>>

\* the loop is over: the handler returns its summary
execute_all_return ==
    /\ run.op = "execute_all_transformations"
    /\ run.phase = "loop"
    /\ run.i > Len(run.operations)
    /\ run' = [run EXCEPT !.phase = "returned"]
    /\ UNCHANGED <<ai_steps, joins, quals, tables, warehouse_meta, history, time>>

\* the response is sent and the next request is taken
send_response ==
    /\ run.phase \in {"returned", "raised"}
    /\ run' = IdleRun
    /\ UNCHANGED <<ai_steps, joins, quals, tables, warehouse_meta, history, time>>

----------------------------------------------------------------------------
(* The pipeline: execute_transformation_pipeline and its callers.          *)

\* TransformationProjectRepository.update_project(self, user_id, project_id,
\* **kwargs) called with the given positional arguments: anything but two
\* of them is a TypeError
update_project(positional) == IF Len(positional) # 2 THEN "TypeError" ELSE "ok"

\* the names a function body can read: its parameters, its locals and the
\* module's globals
ModuleGlobals ==
    {"user_credentials", "asyncio", "engine", "pd", "execute_transformation_pipeline",
     "get_refreshed_credentials", "fetch_full_sheet_data", "store_in_warehouse"}

NameDefined(name, locals) == name \in locals \cup ModuleGlobals

\* one iteration of the loop of sync_project_source_sheets: 1 when the sheet
\* was synced.  The loop body reads user_id, which is no parameter, local or
\* global of the function; the NameError is caught with every other error
\* of the iteration.
SyncSheet(sheet_id, fetched) ==
    IF ~NameDefined("user_id", {"project", "sheet_repo", "creds", "service",
                                "synced_count", "total_sheets", "sheet_id"})
    THEN 0
    ELSE IF SheetExists(sheet_id) /\ fetched THEN 1 ELSE 0

RECURSIVE SyncedCount(_, _)
SyncedCount(sheet_ids, fetched) ==
    IF sheet_ids = <<>> THEN 0
    ELSE SyncSheet(Head(sheet_ids), fetched) + SyncedCount(Tail(sheet_ids), fetched)

\* success_rate >= 0.5, with success_rate = synced_count / total_sheets, or
\* 0 for a project without sheets
sync_project_source_sheets(sheet_ids, fetched) ==
    LET synced_count == SyncedCount(sheet_ids, fetched)
        total_sheets == Len(sheet_ids)
    IN [success |-> total_sheets > 0 /\ 2 * synced_count >= total_sheets,
        synced_count |-> synced_count,
        total_sheets |-> total_sheets]

\* process_transformation: the join of the project's first two sheets, None
\* with fewer than two sheets or without a join configuration
process_transformation(tbls, sheet_ids) ==
    LET loaded == SelectSeq(sheet_ids, SheetExists)
    IN IF Len(loaded) < 2 THEN None
       ELSE IF IsEmptyDf(fetch_full_sheet_data(tbls, loaded[1]))
               \/ IsEmptyDf(fetch_full_sheet_data(tbls, loaded[2]))
            THEN None
            ELSE None            \* join_config = {}: no left_column

NewHistoryEntry(project_id, total_sheets) ==
    [project_id |-> project_id,
     status |-> "running",
     completed_at |-> None,
     error_message |-> None,
     sheets_synced |-> 0,
     total_sheets |-> total_sheets,
     rows_processed |-> None]

HistorySetEnded(entry, status, error_message) ==
    [entry EXCEPT !.status = status,
                  !.completed_at = Some("end_time"),
                  !.error_message = error_message]

\* execute_transformation_pipeline(project_id, user_id, db): the history
\* table it leaves.  Every call of update_project passes project_id alone.
execute_transformation_pipeline(hist, tbls, project_id, fetched) ==
    IF ~ProjectExists(project_id) THEN hist
    ELSE
    LET n == Len(hist) + 1
        h1 == Append(hist, NewHistoryEntry(project_id, Len(ProjectSheetIds)))
        \* the except block: update_project is called before the entry is
        \* touched, and its own exception leaves the handler
        except_block(h, msg) ==
            IF update_project(<<project_id>>) = "TypeError" THEN h
            ELSE [h EXCEPT ![n] = HistorySetEnded(@, "failed", Some(msg))]
        \* a branch that ends the entry and then calls update_project
        end_entry(h, status, error_message) ==
            LET ended == [h EXCEPT ![n] = HistorySetEnded(@, status, error_message)]
            IN IF update_project(<<project_id>>) = "TypeError"
               THEN except_block(ended, "TypeError")
               ELSE ended
        sync_result == sync_project_source_sheets(ProjectSheetIds, fetched)
        h2 == [h1 EXCEPT ![n].sheets_synced = sync_result.synced_count]
        transformed_data == process_transformation(tbls, ProjectSheetIds)
    IN  IF update_project(<<project_id>>) = "TypeError"
        THEN except_block(h1, "TypeError")
        ELSE IF ~sync_result.success
        THEN end_entry(h2, "failed", Some("Failed to sync source sheets"))
        ELSE IF IsNone(transformed_data)
        THEN end_entry(h2, "failed", Some("Transformation processing failed"))
        ELSE end_entry([h2 EXCEPT ![n].rows_processed =
                                      Some(Cardinality(Get(transformed_data).rows))],
                       "completed", None)

\* a run of the pipeline coroutine: it never suspends, so it is one step
execute_transformation_pipeline_task ==
    /\ Idle
    /\ Len(history) < MaxHistory
    /\ \E project_id \in 1..2, fetched \in BOOLEAN :
          history' = execute_transformation_pipeline(history, tables, project_id, fetched)
    /\ UNCHANGED <<ai_steps, joins, quals, tables, warehouse_meta, time, run>>

\* POST /projects/{project_id}/execute-pipeline: the handler reads
\* current_user, which is not among its parameters (project_id, db); the
\* NameError becomes HTTP 500 and no task is created
execute_pipeline ==
    /\ Idle
    /\ Len(history) < MaxHistory
    /\ \E project_id \in 1..2 :
          IF NameDefined("current_user", {"project_id", "db"})
          THEN /\ history' = execute_transformation_pipeline(history, tables, project_id, TRUE)
               /\ run' = [IdleRun EXCEPT !.op = "execute_pipeline", !.id = project_id,
                                         !.phase = "returned"]
          ELSE /\ run' = [IdleRun EXCEPT !.op = "execute_pipeline", !.id = project_id,
                                         !.phase = "raised"]
               /\ UNCHANGED history
    /\ UNCHANGED <<ai_steps, joins, quals, tables, warehouse_meta, time>>

Next ==
    \/ create_transformation_step
    \/ create_join
    \/ execute_transformation_step_begin
    \/ execute_transformation_step_end
    \/ execute_join_request
    \/ create_qualitative_data_operation
    \/ execute_qualitative_data_operation_begin
    \/ execute_qualitative_data_operation_end
    \/ execute_all_begin
    \/ execute_all_iterate
    \/ execute_all_step_end
    \/ execute_all_return
    \/ send_response

Spec == Init /\ [][Next]_vars

\* the pipeline and the operations on transformation steps
NextPipeline ==
    \/ create_transformation_step
    \/ execute_transformation_step_begin
    \/ execute_transformation_step_end
    \/ execute_transformation_pipeline_task
    \/ execute_pipeline
    \/ send_response

SpecPipeline == Init /\ [][NextPipeline]_vars

----------------------------------------------------------------------------
(* Properties of the node state machine.                                   *)

\* a run sets the status running; completed and failed follow running only
RunTransition(old, new) ==
    \/ new = old
    \/ new = "running"
    \/ old = "running" /\ new \in {"completed", "failed"}

\* a run of a join ends it completed or failed, without a status between
JoinTransition(old, new) ==
    \/ new = old
    \/ new \in {"completed", "failed"}

----------------------------------------------------------------------------
(* Properties of the nodes' output tables.                                 *)

\* the table under name exists with exactly the recorded columns
OutputTableMatches(tbls, name, output_columns) ==
    /\ ~IsNone(name)
    /\ HasTable(tbls, Get(name))
    /\ ~IsNone(output_columns)
    /\ tbls[Get(name)].columns = Get(output_columns)

\* C2, as stated: between requests, a node of any kind is completed if and
\* only if the table its run writes exists in the warehouse with the
\* columns recorded on the node, a run with an empty result included.
CompletedIffOutputTable ==
    Idle =>
      /\ \A i \in DOMAIN ai_steps :
            ai_steps[i].status = "completed"
              <=> OutputTableMatches(tables, Some(StepTableName(i, ai_steps[i])),
                                     ai_steps[i].output_columns)
      /\ \A i \in DOMAIN joins :
            joins[i].status = "completed"
              <=> OutputTableMatches(tables, joins[i].output_table_name,
                                     joins[i].output_columns)
      /\ \A i \in DOMAIN quals :
            quals[i].status = "completed"
              <=> OutputTableMatches(tables, quals[i].actual_table_name,
                                     quals[i].output_columns)

----------------------------------------------------------------------------
(* Properties of execute_all_transformations.                              *)

\* the non-source nodes of the project
NodeRefs ==
    {Ref("transformation", i) : i \in DOMAIN ai_steps}
      \cup {Ref("join", i) : i \in DOMAIN joins}
      \cup {Ref("qualitative", i) : i \in DOMAIN quals}

NodeRow(n) ==
    CASE n.type = "transformation" -> ai_steps[n.id]
      [] n.type = "join" -> joins[n.id]
      [] n.type = "qualitative" -> quals[n.id]

\* the nodes a node refers to
UpstreamNodes(n) ==
    LET row == NodeRow(n)
        refs == CASE n.type = "transformation" ->
                       {row.upstream_tables[k] : k \in DOMAIN row.upstream_tables}
                  [] n.type = "join" -> {row.left_table, row.right_table}
                  [] n.type = "qualitative" -> {row.source_table}
    IN refs \cap NodeRefs

\* the nodes reached from a set of nodes along upstream references
RECURSIVE UpstreamClosure(_, _)
UpstreamClosure(front, seen) ==
    LET next == UNION {UpstreamNodes(n) : n \in front} \ seen
    IN IF next = {} THEN seen ELSE UpstreamClosure(next, seen \cup next)

\* the nodes n depends on, directly or transitively
DependsOn(n) == UpstreamClosure({n}, {})

HasCycle == \E n \in NodeRefs : n \in DependsOn(n)

InRunAll == run.op = "execute_all_transformations"

RunAllEnded == InRunAll /\ run.phase \in {"returned", "raised"}

OperationRef(k) == Ref(run.operations[k].type, run.operations[k].id)

\* the execution of the operation at position k has started
OperationStarted(k) ==
    k < run.i \/ (k = run.i /\ run.phase \in {"running", "raised"})

\* the execution of the operation at position k is over
OperationFinished(k) == k < run.i \/ (k = run.i /\ run.phase = "raised")

\* the execution of the operation at position k has failed
OperationFailed(k) ==
    \/ k = run.i /\ run.phase = "raised"
    \/ \E f \in DOMAIN run.failed_steps : run.failed_steps[f] = run.operations[k]

\* C3, as stated: in execute_all_transformations on references without a
\* cycle, when the execution of a node has started, the execution of every
\* other node it refers to is over, whatever the order of creation.
UpstreamFinishesFirst ==
    (InRunAll /\ ~HasCycle) =>
      \A k \in DOMAIN run.operations :
        OperationStarted(k) =>
          \A u \in UpstreamNodes(OperationRef(k)) \ {OperationRef(k)} :
            \E j \in DOMAIN run.operations :
              j # k /\ OperationRef(j) = u /\ OperationFinished(j)

\* the status a reference points to, "none" for a source or a missing row
RefStatus(ref) ==
    IF ref \in NodeRefs THEN NodeRow(ref).status ELSE "none"

\* a node with a reference to another node that has failed or has never run
UpstreamNotRun(n) ==
    \E u \in UpstreamNodes(n) \ {n} : RefStatus(u) \in {"failed", "draft", "pending"}

\* C4, as stated: a run of a node that refers to a failed or never-run node
\* ends with the node failed and an error recorded on it, and writes no
\* table: the run of a step or a text-analytics operation is the step that
\* takes it out of running, the run of a join the step that changes its row.
DependencyFailureFailsNode ==
    [][/\ \A i \in DOMAIN ai_steps :
            (/\ ai_steps[i].status = "running"
             /\ ai_steps'[i].status # "running"
             /\ UpstreamNotRun(Ref("transformation", i)))
            => /\ ai_steps'[i].status = "failed"
               /\ ~IsNone(ai_steps'[i].error_message)
               /\ tables' = tables
       /\ \A i \in DOMAIN quals :
            (/\ quals[i].status = "running"
             /\ quals'[i].status # "running"
             /\ UpstreamNotRun(Ref("qualitative", i)))
            => /\ quals'[i].status = "failed"
               /\ ~IsNone(quals'[i].error_message)
               /\ tables' = tables
       /\ \A i \in DOMAIN joins :
            (joins'[i] # joins[i] /\ UpstreamNotRun(Ref("join", i)))
            => /\ joins'[i].status = "failed"
               /\ ~IsNone(joins'[i].error_message)
               /\ tables' = tables]_vars

\* C5, as stated: when execute_all_transformations has ended, every node
\* whose execution failed in it is failed with an error recorded on it, and
\* every node that does not depend on a node that failed has been executed.
FailureIsRecordedAndRunGoesOn ==
    RunAllEnded =>
      /\ \A k \in DOMAIN run.operations :
            OperationFailed(k) =>
              /\ NodeRow(OperationRef(k)).status = "failed"
              /\ ~IsNone(NodeRow(OperationRef(k)).error_message)
      /\ \A k \in DOMAIN run.operations :
            (\A j \in DOMAIN run.operations :
                OperationFailed(j) => OperationRef(j) \notin DependsOn(OperationRef(k)))
            => OperationFinished(k)

\* C6, as stated: with a cycle among the references of the nodes,
\* execute_all_transformations changes no node and writes no table, and it
\* ends with an error instead of a summary.
CycleFailsBeforeExecution ==
    [][(InRunAll /\ HasCycle) =>
          /\ ai_steps' = ai_steps
          /\ joins' = joins
          /\ quals' = quals
          /\ tables' = tables
          /\ warehouse_meta' = warehouse_meta
          /\ run'.phase # "returned"]_vars

\* C7, as stated: when execute_all_transformations has ended, every
\* transformation step, join and text-analytics operation of the project
\* has been executed at exactly one position of the run and is completed
\* or failed.
EveryNodeDispatchedOnce ==
    RunAllEnded =>
      \A n \in NodeRefs :
        /\ Cardinality({k \in DOMAIN run.operations :
                           OperationRef(k) = n /\ OperationFinished(k)}) = 1
        /\ NodeRow(n).status \in {"completed", "failed"}

----------------------------------------------------------------------------
(* Properties of the pipeline's history.                                   *)

HistoryEntryEnded(entry) ==
    entry.status \in {"completed", "failed"} /\ ~IsNone(entry.completed_at)

\* C8, as stated: a run in which fewer than half of the project's sheets
\* were synced is recorded as failed.
RunBelowHalfSyncedIsFailed ==
    \A k \in DOMAIN history :
      2 * history[k].sheets_synced < history[k].total_sheets
        => history[k].status = "failed"

\* C9, as stated: a request to run the pipeline of an existing project
\* leaves a history entry, and the entry of every run that is over is
\* completed or failed with completed_at set.
EveryRunLeavesEndedEntry ==
    /\ (run.op = "execute_pipeline" /\ ProjectExists(run.id)) => history # <<>>
    /\ \A k \in DOMAIN history : HistoryEntryEnded(history[k])

\* no entry of the history ever has completed_at set: execute_transformation_
\* pipeline leaves through the TypeError of update_project before it ends
\* its entry
NoHistoryEntryEverEnds ==
    \A k \in DOMAIN history : IsNone(history[k].completed_at)

----------------------------------------------------------------------------
(* Properties of the resolver, load_table_data.                            *)

\* C11, as stated: when a run of a node ends completed with a non-empty
\* result, load_table_data returns for the node exactly the table the run
\* has written, with or without a custom output table name.
ResolverReadsWrittenTable ==
    [][/\ \A i \in DOMAIN ai_steps :
            LET name == StepTableName(i, ai_steps[i])
            IN (/\ run.op = "execute_transformation_step"
                /\ run.id = i
                /\ ai_steps'[i].status = "completed"
                /\ HasTable(tables', name)
                /\ ~IsEmptyDf(tables'[name]))
               => load_table_data(ai_steps', joins', quals', tables', i, "transformation")
                    = Some(tables'[name])
       /\ \A i \in DOMAIN quals :
            LET name == QualTableName(i, quals[i], time)
            IN (/\ run.op = "execute_qualitative_data_operation"
                /\ run.id = i
                /\ quals'[i].status = "completed")
               => load_table_data(ai_steps', joins', quals', tables', i, "qualitative")
                    = Some(tables'[name])
       /\ \A i \in DOMAIN joins :
            (joins[i].status # "completed" /\ joins'[i].status = "completed")
            => load_table_data(ai_steps', joins', quals', tables', i, "join")
                 = Some(tables'[Get(joins'[i].output_table_name)])]_vars

NodeKinds == {"transformation", "join", "qualitative"}

RowsOfKind(type) ==
    CASE type = "transformation" -> ai_steps
      [] type = "join" -> joins
      [] type = "qualitative" -> quals

\* the node exists, is completed and the table under its stored name exists
Resolvable(type, id) ==
    LET rows == RowsOfKind(type)
    IN /\ id \in DOMAIN rows
       /\ rows[id].status = "completed"
       /\ ~IsNone(StoredTableName(rows[id]))
       /\ HasTable(tables, Get(StoredTableName(rows[id])))

\* C12: for a transformation, a join or a text-analytics operation,
\* load_table_data returns None, and get_table_columns the empty list, alike
\* when there is no such node, when the node is not completed and when its
\* table is missing; it returns a table only for an existing, completed node
\* whose table exists, and then that table.
ResolverNotFoundIsNone ==
    \A type \in NodeKinds, id \in 1..(MaxSteps + 1) :
      LET df == load_table_data(ai_steps, joins, quals, tables, id, type)
          columns == get_table_columns(ai_steps, joins, quals, tables, id, type)
      IN IF Resolvable(type, id)
         THEN /\ df = Some(tables[Get(StoredTableName(RowsOfKind(type)[id]))])
              /\ columns = Get(df).columns
         ELSE df = None /\ columns = <<>>

\* C12, witness: a completed step whose table is missing, a step that is not
\* completed while a table under its stored name exists, an id without a
\* node, and a completed join that resolves to its table
ResolverNotFoundWitness ==
    /\ \E i \in DOMAIN ai_steps :
         ai_steps[i].status = "completed" /\ ~Resolvable("transformation", i)
    /\ \E i \in DOMAIN ai_steps :
         /\ ai_steps[i].status # "completed"
         /\ ~IsNone(StoredTableName(ai_steps[i]))
         /\ HasTable(tables, Get(StoredTableName(ai_steps[i])))
    /\ Len(quals) + 1 \notin DOMAIN quals
    /\ \E i \in DOMAIN joins : Resolvable("join", i)

----------------------------------------------------------------------------
(* The endpoints that serve a node's output.                               *)

Served(df) == [code |-> 200, df |-> Some(df)]

Refused(code) == [code |-> code, df |-> None]

\* the join's table served whatever the join's status
get_join_data_any_status(J, tbls, join_id) ==
    IF join_id \notin DOMAIN J THEN Refused(404)
    ELSE IF ~HasTable(tbls, Get(J[join_id].output_table_name)) THEN Refused(404)
    ELSE Served(tbls[Get(J[join_id].output_table_name)])

\* GET /projects/{project_id}/joins/{join_id}/data
get_join_data(J, tbls, join_id) ==
    IF join_id \notin DOMAIN J THEN Refused(404)
    ELSE IF J[join_id].status # "completed" THEN Refused(400)
    ELSE IF IsNone(J[join_id].output_table_name) \/ Get(J[join_id].output_table_name) = <<>>
    THEN Refused(404)
    ELSE IF ~HasTable(tbls, Get(J[join_id].output_table_name)) THEN Refused(404)
    ELSE Served(tbls[Get(J[join_id].output_table_name)])

\* GET /projects/{project_id}/qualitative-data/{operation_id}/data
get_qualitative_data_results(Q, tbls, operation_id) ==
    IF operation_id \notin DOMAIN Q THEN Refused(404)
    ELSE IF Q[operation_id].status # "completed" THEN Refused(400)
    ELSE IF IsNone(StoredTableName(Q[operation_id])) THEN Refused(404)
    ELSE IF ~HasTable(tbls, Get(StoredTableName(Q[operation_id]))) THEN Refused(500)
    ELSE Served(tbls[Get(StoredTableName(Q[operation_id]))])

\* the tables that match LIKE '%transform_step_{step_id}_%'
StepTablesLike(tbls, step_id) ==
    {n \in DOMAIN tbls :
        Len(n) >= 3 /\ n[1] = "transform_step_" /\ n[2] = IdStr(step_id) /\ n[3] = "_"}

\* GET /ai-transformations/{step_id}/data.  The name is the cleaned custom
\* name, else the "Output table:" line a run has put first in
\* code_explanation, which for a step without a custom name is the default
\* name, else the default name.
get_transformation_data(S, tbls, step_id) ==
    IF step_id \notin DOMAIN S THEN Refused(404)
    ELSE IF S[step_id].status # "completed" THEN Refused(400)
    ELSE LET table_name == StepTableName(step_id, S[step_id])
         IN IF HasTable(tbls, table_name) THEN Served(tbls[table_name])
            ELSE IF StepTablesLike(tbls, step_id) # {}
            THEN Served(tbls[CHOOSE n \in StepTablesLike(tbls, step_id) : TRUE])
            ELSE Refused(404)

----------------------------------------------------------------------------
(* The materializer on its own: store_in_warehouse applied to any frame,   *)
(* name and project, in the two writes it makes.                           *)

WarehouseFrames ==
    {Table(<<"id", "amt">>, {1, 2}),
     Table(<<"id", "amt">>, {2, 3}),
     Table(<<"col1", "col2">>, {1, 2, 3})}

WarehouseNames == {<<"t">>, <<"u">>}

\* what a call of store_in_warehouse was given and found
StoreCall(df, table_name, project_id, old_tables, old_meta) ==
    [type |-> "store", id |-> project_id, created_at |-> 0, df |-> df,
     table_name |-> table_name, old_tables |-> old_tables, old_meta |-> old_meta]

\* df.to_sql(table_name, engine, if_exists='replace', index=False)
store_in_warehouse_write ==
    /\ Idle
    /\ \E df \in WarehouseFrames, table_name \in WarehouseNames, project_id \in 1..2 :
          /\ tables' = ToSql(tables, table_name, df)
          /\ run' = [IdleRun EXCEPT
                        !.op = "store_in_warehouse",
                        !.id = project_id,
                        !.phase = "written",
                        !.operations = <<StoreCall(df, table_name, project_id,
                                                   tables, warehouse_meta)>>]
    /\ UNCHANGED <<ai_steps, joins, quals, warehouse_meta, history, time>>

\* the metadata row and db.commit(); an exception is re-raised to the caller
store_in_warehouse_commit ==
    /\ run.op = "store_in_warehouse"
    /\ run.phase = "written"
    /\ LET call == run.operations[1]
           committed == CommitWarehouseMeta(warehouse_meta, call.df, call.table_name, call.id)
       IN /\ warehouse_meta' = committed.meta
          /\ run' = [run EXCEPT !.phase = IF committed.raised THEN "raised" ELSE "returned"]
    /\ UNCHANGED <<ai_steps, joins, quals, tables, history, time>>

NextWarehouse ==
    \/ store_in_warehouse_write
    \/ store_in_warehouse_commit
    \/ send_response

SpecWarehouse == Init /\ [][NextWarehouse]_vars

StoreReturned == run.op = "store_in_warehouse" /\ run.phase = "returned"

\* C14: when store_in_warehouse has returned, the table under the name is
\* the frame it was given, whatever was stored under the name before: no
\* row of the previous version is left.
StoreReplacesTable ==
    StoreReturned => tables[run.operations[1].table_name] = run.operations[1].df

\* C14, witness: store_in_warehouse has returned for a name that held a
\* table with a row the new frame does not have
StoreReplacesTableWitness ==
    /\ StoreReturned
    /\ LET call == run.operations[1]
       IN /\ HasTable(call.old_tables, call.table_name)
          /\ call.old_tables[call.table_name].rows \ call.df.rows # {}

\* the metadata rows of a table name
EntriesOf(meta, table_name) == SelectSeq(meta, LAMBDA e : e.table_name = table_name)

\* the metadata row describes the frame
EntryDescribes(entry, df) ==
    /\ entry.row_count = Cardinality(df.rows)
    /\ entry.column_schema = df.columns
    /\ entry.data_hash = DataHash(df)

StoreRaised == run.op = "store_in_warehouse" /\ run.phase = "raised"

\* C15, as stated, for a call that fails between the write of the data and
\* the commit of the metadata: after it, the table under the name and the
\* metadata rows of the name are both as they were before the call, or the
\* table is the new frame and the name has a metadata row that describes it.
StoreIsAtomic ==
    StoreRaised =>
      LET call == run.operations[1]
          name == call.table_name
          both_old ==
            /\ HasTable(tables, name) <=> HasTable(call.old_tables, name)
            /\ HasTable(tables, name) => tables[name] = call.old_tables[name]
            /\ EntriesOf(warehouse_meta, name) = EntriesOf(call.old_meta, name)
          both_new ==
            /\ tables[name] = call.df
            /\ Len(EntriesOf(warehouse_meta, name)) = 1
            /\ EntryDescribes(EntriesOf(warehouse_meta, name)[1], call.df)
      IN both_old \/ both_new

(***************************************************************************)
(* Properties of the warehouse metadata.                                   *)
(***************************************************************************)
NoNodeFailed ==
    /\ \A i \in DOMAIN ai_steps : ai_steps[i].status # "failed"
    /\ \A i \in DOMAIN joins : joins[i].status # "failed"
    /\ \A i \in DOMAIN quals : quals[i].status # "failed"

\* the tables that node runs have written
OutputTableNames == DOMAIN tables \ {SheetTableName(ProjectSheetIds[k]) : k \in DOMAIN ProjectSheetIds}

\* C16, as stated: when no handler is in progress and no node run has
\* failed, every output table in the warehouse has exactly one metadata row
\* with its name, and that row records the row count, the schema and the
\* hash of the data now stored under the name.
OneEntryPerOutputTable ==
    (Idle /\ NoNodeFailed) =>
      \A name \in OutputTableNames :
        /\ Len(EntriesOf(warehouse_meta, name)) = 1
        /\ EntryDescribes(EntriesOf(warehouse_meta, name)[1], tables[name])

----------------------------------------------------------------------------
(* Properties of the names of the output tables.                           *)

\* the names the runs of a node derive for its output table: a step's name
\* in execute_transformation_step and in execute_all_transformations, a
\* join's stored name, a qualitative operation's name at any time of the
\* clock
NodeOutputNames(n) ==
    CASE n.type = "transformation" ->
           {StepTableName(n.id, ai_steps[n.id]),
            DefaultStepTableName(n.id, ai_steps[n.id])}
      [] n.type = "join" ->
           {joins[n.id].output_table_name[k] :
              k \in DOMAIN joins[n.id].output_table_name}
      [] OTHER ->
           {QualTableName(n.id, quals[n.id], t) : t \in 1..MaxTime}

\* the tables in the warehouse under these names
NodeOutputTables(n) == {name \in NodeOutputNames(n) : HasTable(tables, name)}

\* C17, as stated: a node's configuration never changes after its creation,
\* so whatever runs it has had, the warehouse holds at most one output table
\* of the node.
OneOutputTablePerNode ==
    Idle => \A n \in NodeRefs : Cardinality(NodeOutputTables(n)) <= 1

----------------------------------------------------------------------------
(* The frame of a node run.                                                *)

\* the node whose run a step of the program belongs to, if any
ActingNodes ==
    (IF run.op = "execute_transformation_step"
       THEN {Ref("transformation", run.id)} ELSE {})
    \cup (IF run'.op = "execute_transformation_step"
            THEN {Ref("transformation", run'.id)} ELSE {})
    \cup (IF run.op = "execute_qualitative_data_operation"
            THEN {Ref("qualitative", run.id)} ELSE {})
    \cup (IF run'.op = "execute_qualitative_data_operation"
            THEN {Ref("qualitative", run'.id)} ELSE {})
    \cup (IF Idle /\ DOMAIN joins' = DOMAIN joins
            THEN {Ref("join", i) : i \in {j \in DOMAIN joins : joins'[j] # joins[j]}}
            ELSE {})
    \cup (IF InRunAll /\ run.i \in DOMAIN run.operations
            THEN {OperationRef(run.i)} ELSE {})

\* C18, as stated: a step of the run of a node n leaves every other node m
\* as it was: m's row (status, error message, output columns), and, under
\* every name of m's output that is not also a name of n's output, the
\* table and the metadata rows.
NodeRunChangesOnlyItself ==
    [][\A n \in ActingNodes :
         \A m \in NodeRefs \ {n} :
           /\ NodeRow(m)' = NodeRow(m)
           /\ \A name \in NodeOutputNames(m) \ NodeOutputNames(n) :
                /\ HasTable(tables', name) <=> HasTable(tables, name)
                /\ HasTable(tables, name) => tables'[name] = tables[name]
                /\ EntriesOf(warehouse_meta', name) = EntriesOf(warehouse_meta, name)]_vars

----------------------------------------------------------------------------
(* Two invocations of execute_all_transformations.                         *)

----------------------------------------------------------------------------
(* The validation of a join's key columns.                                 *)

\* the sides and columns of a join's keys that its tables lack
MissingKeys(join_op, left_df, right_df) ==
    {<<"left", join_op.join_keys[k].left>> :
        k \in {j \in DOMAIN join_op.join_keys :
                 ~InSeq(join_op.join_keys[j].left, left_df.columns)}}
    \cup {<<"right", join_op.join_keys[k].right>> :
            k \in {j \in DOMAIN join_op.join_keys :
                     ~InSeq(join_op.join_keys[j].right, right_df.columns)}}

----------------------------------------------------------------------------
(* A join without matching rows, and the node that reads its output.       *)

\* a step that moves the ids of the sheet's rows, and a step that reads the
\* output of join 1
EmptyJoinStepRequests ==
    {StepRequest(Some(<<"t">>), "shift", <<Ref("sheet", 1)>>),
     StepRequest(Some(<<"d">>), "keep", <<Ref("join", 1)>>)}

\* the sheet joined with the output of step 1 on id
EmptyJoinRequests ==
    {JoinRequest(Ref("sheet", 1), Ref("transformation", 1), "inner",
                 <<KeyPair("id", "id")>>, None),
     JoinRequest(Ref("sheet", 1), Ref("transformation", 1), "left",
                 <<KeyPair("id", "id")>>, None)}

create_step_for_join == create_transformation_step_of(EmptyJoinStepRequests)

create_join_on_step == create_join_of(EmptyJoinRequests)

NextEmptyJoin ==
    \/ create_step_for_join
    \/ create_join_on_step
    \/ execute_transformation_step_begin
    \/ execute_transformation_step_end
    \/ execute_join_request

SpecEmptyJoin == Init /\ [][NextEmptyJoin]_vars

\* the warehouse without the table of the name
WithoutTable(tbls, name) == [n \in DOMAIN tbls \ {name} |-> tbls[n]]

\* the joins whose run completed with a merge of no rows
EmptyCompletedJoins ==
    {i \in DOMAIN joins :
        /\ joins[i].status = "completed"
        /\ ~IsNone(joins[i].output_table_name)
        /\ HasTable(tables, Get(joins[i].output_table_name))
        /\ IsEmptyDf(tables[Get(joins[i].output_table_name)])}

\* C21, as stated, for the node that reads the join's output: what a step
\* downstream of a completed join without rows loads as its input differs
\* from what it loads when the join's table is missing and from what it
\* loads when the join has failed.
EmptyJoinIsToldApart ==
    \A i \in EmptyCompletedJoins :
      \A k \in DOMAIN ai_steps :
        InSeq(Ref("join", i), ai_steps[k].upstream_tables) =>
          LET loaded == load_upstream_data(ai_steps, joins, quals, tables, ai_steps[k])
              missing == load_upstream_data(
                             ai_steps, joins, quals,
                             WithoutTable(tables, Get(joins[i].output_table_name)),
                             ai_steps[k])
              failed == load_upstream_data(
                            ai_steps,
                            update_join_status(joins, i, "failed", Some("error"), None),
                            quals, tables, ai_steps[k])
          IN  loaded # missing /\ loaded # failed

----------------------------------------------------------------------------
(* The execution of generated code on its own: exec over the namespace,    *)
(* one statement at a time, and the read-back of df.                       *)

MaxProgram == 2      \* statements of a generated code

ExecStatements ==
    {Assign(t, f, s) : t \in {"df", "result"}, f \in {"same", "head", "none"},
                       s \in {"df", "sheet_1"}}
      \cup {SetItem(t, "shift") : t \in {"df", "sheet_1", "result"}}
      \cup {Del("df"), Raise}

ExecPrograms ==
    UNION {[1..n -> ExecStatements] : n \in 0..MaxProgram}

\* what load_upstream_data returned: nothing, the sheet, or the sheet and
\* the output of a step
ExecInputs ==
    {<<>>,
     <<[name |-> Ref("sheet", 1), df |-> SheetData]>>,
     <<[name |-> Ref("sheet", 1), df |-> SheetData],
       [name |-> Ref("transformation", 1), df |-> Table(<<"id">>, {2})]>>}

\* the handler has built exec_globals for a step's code
InitExec ==
    /\ ai_steps = <<>>
    /\ joins = <<>>
    /\ quals = <<>>
    /\ tables = (SheetTableName(1) :> SheetData)
    /\ warehouse_meta = <<>>
    /\ history = <<>>
    /\ time = 1
    /\ \E program \in ExecPrograms, sheet_data \in ExecInputs :
         run = [op |-> "exec", phase |-> "exec", program |-> program, pc |-> 1,
                sheet_data |-> sheet_data, env |-> ExecGlobals(sheet_data),
                result |-> None]

exec_statement ==
    /\ run.op = "exec" /\ run.phase = "exec"
    /\ ~run.env.raised
    /\ run.pc <= Len(run.program)
    /\ run' = [run EXCEPT !.env = ExecStatement(run.program[run.pc], @), !.pc = @ + 1]
    /\ UNCHANGED <<ai_steps, joins, quals, tables, warehouse_meta, history, time>>

\* the except clauses re-raise
exec_raised ==
    /\ run.op = "exec" /\ run.phase = "exec"
    /\ run.env.raised
    /\ run' = [run EXCEPT !.phase = "raised"]
    /\ UNCHANGED <<ai_steps, joins, quals, tables, warehouse_meta, history, time>>

\* result_df = exec_globals.get('df', df)
exec_read_back ==
    /\ run.op = "exec" /\ run.phase = "exec"
    /\ ~run.env.raised
    /\ run.pc > Len(run.program)
    /\ run' = [run EXCEPT !.phase = "returned", !.result = Some(ReadBack(run.env))]
    /\ UNCHANGED <<ai_steps, joins, quals, tables, warehouse_meta, history, time>>

NextExec ==
    \/ exec_statement
    \/ exec_raised
    \/ exec_read_back

SpecExec == InitExec /\ [][NextExec]_vars

\* the frame df was bound to before the code ran
ExecInput == ExecGlobals(run.sheet_data).heap[1]

Rebinds(program, name) ==
    \E i \in DOMAIN program : program[i].op \in {"assign", "del"} /\ program[i].target = name

ModifiesInPlace(program) == \E i \in DOMAIN program : program[i].op = "setitem"

ExecReturned == run.op = "exec" /\ run.phase = "returned"

\* C22, as stated: df starts as the first loaded upstream table; the result
\* is the table bound to df when the code has finished; and code that never
\* assigns to the name df returns the input unchanged.
ResultIsDfAndUnassignedDfIsInput ==
    /\ (run.op = "exec" /\ run.sheet_data # <<>>) => ExecInput = run.sheet_data[1].df
    /\ ExecReturned =>
         /\ "df" \in DOMAIN run.env.ns => Get(run.result) = run.env.heap[run.env.ns["df"]]
         /\ ~Rebinds(run.program, "df") => Get(run.result) = ExecInput

\* C22, amended: the same, for code that neither assigns to the name df nor
\* modifies a table in place.
ResultIsDfAndUntouchedDfIsInput ==
    /\ (run.op = "exec" /\ run.sheet_data # <<>>) => ExecInput = run.sheet_data[1].df
    /\ ExecReturned =>
         /\ "df" \in DOMAIN run.env.ns => Get(run.result) = run.env.heap[run.env.ns["df"]]
         /\ (~Rebinds(run.program, "df") /\ ~ModifiesInPlace(run.program))
              => Get(run.result) = ExecInput

\* code that assigned a smaller table to the name result and never touched
\* df has finished, and the result is the input
ResultIsDfWitness ==
    /\ ExecReturned
    /\ run.sheet_data # <<>>
    /\ run.program # <<>>
    /\ ~Rebinds(run.program, "df") /\ ~ModifiesInPlace(run.program)
    /\ "result" \in DOMAIN run.env.ns
    /\ run.env.heap[run.env.ns["result"]] # ExecInput
    /\ Get(run.result) = ExecInput

----------------------------------------------------------------------------
(* Text-analytics operations on a sheet whose text column has blank cells. *)

\* the sheet with any of the cells of amt null or blank, and with all of
\* them and the ids as well
BlankSheets ==
    {[columns |-> SheetData.columns, rows |-> SheetData.rows, blank |-> b] :
        b \in (SUBSET {<<r, "amt">> : r \in SheetData.rows})
                \cup {{<<r, c>> : r \in SheetData.rows, c \in {"id", "amt"}}}}

BlankQualRequests ==
    {QualRequest(Ref("sheet", 1), "amt", None),
     QualRequest(Ref("sheet", 1), "amt", Some(<<"Q", " ">>)),
     QualRequest(Ref("sheet", 1), "id", Some(<<"Q", " ">>))}

\* the project's sheet was synced with one of these contents
InitBlank ==
    /\ ai_steps = <<>>
    /\ joins = <<>>
    /\ quals = <<>>
    /\ \E sheet \in BlankSheets : tables = (SheetTableName(1) :> sheet)
    /\ warehouse_meta = <<>>
    /\ history = <<>>
    /\ time = 1
    /\ run = IdleRun

create_qualitative_data_operation_on_text ==
    create_qualitative_data_operation_of(BlankQualRequests)

NextBlank ==
    \/ create_qualitative_data_operation_on_text
    \/ execute_qualitative_data_operation_begin
    \/ execute_qualitative_data_operation_end

SpecBlank == InitBlank /\ [][NextBlank]_vars

----------------------------------------------------------------------------
(* The sentiment analysis on its own: _perform_sentiment_analysis, one     *)
(* batch at a time, under analyze_qualitative_data's except clause.        *)

MaxTexts == 3        \* rows with text in the analysed frame
BatchSize == 2       \* self.batch_size, which is 100

\* an item of the JSON the completion service returned: an object with or
\* without the keys label and confidence (in tenths), or no object at all
Item(label, confidence) == [dict |-> TRUE, label |-> label, confidence |-> confidence]
NonDict == [dict |-> FALSE, label |-> None, confidence |-> None]

LlmItems ==
    {Item(Some("Positive"), Some(9)),
     Item(Some("Negative"), Some(15)),
     Item(Some("Mixed"), Some(5)),
     Item(None, None),
     NonDict}

\* texts[i:i+self.batch_size] for the k-th batch: the positions of its texts
Chunk(n, k) == {i \in 1..n : (k - 1) * BatchSize < i /\ i <= k * BatchSize}

\* len(chunks)
ChunkCount(n) == (n + BatchSize - 1) \div BatchSize

\* what call_llm_json_list can return for a batch: a list one shorter than
\* the batch, as long, or one longer
LlmResponses(size) ==
    UNION {[1..m -> LlmItems] : m \in {j \in (size - 1)..(size + 1) : j >= 0}}

\* x.get('label', '') if isinstance(x, dict) else ''
LabelOf(x) == IF x.dict /\ ~IsNone(x.label) THEN Get(x.label) ELSE ""

\* x.get('confidence', 0.0) if isinstance(x, dict) else 0.0
ConfidenceOf(x) == IF x.dict /\ ~IsNone(x.confidence) THEN Get(x.confidence) ELSE 0

\* (values + [fill] * target_len)[:target_len]
PadTo(values, fill, target_len) ==
    [i \in 1..target_len |-> IF i <= Len(values) THEN values[i] ELSE fill]

\* analyze_qualitative_data has called _perform_sentiment_analysis on the
\* rows with text
InitSentiment ==
    /\ ai_steps = <<>>
    /\ joins = <<>>
    /\ quals = <<>>
    /\ tables = (SheetTableName(1) :> SheetData)
    /\ warehouse_meta = <<>>
    /\ history = <<>>
    /\ time = 1
    /\ \E n \in 1..MaxTexts :
         run = [op |-> "sentiment", phase |-> "batches", target_len |-> n, k |-> 1,
                sentiments |-> <<>>, results |-> <<>>, result |-> None]

\* one turn of the loop over the chunks: the call raises (chat_complete
\* after its retries, or a response that is no JSON) and the exception
\* leaves the loop, or its items are appended
call_llm_json_list ==
    /\ run.op = "sentiment" /\ run.phase = "batches"
    /\ run.k <= ChunkCount(run.target_len)
    /\ \/ run' = [run EXCEPT !.phase = "raised", !.results = Append(@, "raised")]
       \/ \E s \in LlmResponses(Cardinality(Chunk(run.target_len, run.k))) :
            run' = [run EXCEPT !.sentiments = @ \o s, !.k = @ + 1,
                               !.results = Append(@, "returned")]
    /\ UNCHANGED <<ai_steps, joins, quals, tables, warehouse_meta, history, time>>

\* the output frame: a label and a confidence for each row
sentiment_output ==
    /\ run.op = "sentiment" /\ run.phase = "batches"
    /\ run.k > ChunkCount(run.target_len)
    /\ LET labels == [i \in DOMAIN run.sentiments |-> LabelOf(run.sentiments[i])]
           confidences == [i \in DOMAIN run.sentiments |-> ConfidenceOf(run.sentiments[i])]
       IN  run' = [run EXCEPT
                     !.phase = "returned",
                     !.result = Some([success |-> TRUE,
                                      sentiment_label |-> PadTo(labels, "", run.target_len),
                                      sentiment_confidence |->
                                          PadTo(confidences, 0, run.target_len),
                                      total_records |-> run.target_len,
                                      batch_count |-> ChunkCount(run.target_len)])]
    /\ UNCHANGED <<ai_steps, joins, quals, tables, warehouse_meta, history, time>>

\* the except clause of analyze_qualitative_data
analyze_qualitative_data_except ==
    /\ run.op \in {"sentiment", "summarization"} /\ run.phase = "raised"
    /\ run' = [run EXCEPT
                 !.phase = "returned",
                 !.result = Some([success |-> FALSE,
                                  sentiment_label |-> <<>>,
                                  sentiment_confidence |-> <<>>,
                                  total_records |-> 0,
                                  batch_count |-> 0])]
    /\ UNCHANGED <<ai_steps, joins, quals, tables, warehouse_meta, history, time>>

NextSentiment ==
    \/ call_llm_json_list
    \/ sentiment_output
    \/ analyze_qualitative_data_except

SpecSentiment == InitSentiment /\ [][NextSentiment]_vars

SentimentEnded == run.op = "sentiment" /\ run.phase = "returned"

\* C24, as stated: when the analysis has ended and a batch after the first
\* raised, the analysis still succeeded and its output has a label for
\* every row of the batches that returned before.
FailedBatchKeepsOtherBatches ==
    (/\ SentimentEnded
     /\ Len(run.results) > 1
     /\ run.results[Len(run.results)] = "raised")
    => /\ Get(run.result).success
       /\ \A k \in 1..(Len(run.results) - 1) :
            \A i \in Chunk(run.target_len, k) :
              i \in DOMAIN Get(run.result).sentiment_label

SentimentLabels == {"Positive", "Negative", "Neutral"}

\* C26, as stated: every row of the output of an analysis that succeeded
\* has a label among Positive, Negative, Neutral and a confidence between 0
\* and 1 (10 tenths).
EveryRowHasLabelAndConfidence ==
    (SentimentEnded /\ Get(run.result).success) =>
      \A i \in 1..run.target_len :
        /\ Get(run.result).sentiment_label[i] \in SentimentLabels
        /\ Get(run.result).sentiment_confidence[i] >= 0
        /\ Get(run.result).sentiment_confidence[i] <= 10

----------------------------------------------------------------------------
(* The summarization with a group-by column on its own:                    *)
(* analyze_qualitative_data and _perform_summarization_analysis, one group *)
(* at a time.                                                              *)

SummaryGroups == {"a", "b"}

\* the frames: each row has a value of the group-by column or none, and a
\* text or a blank
SummaryFrames ==
    [1..MaxTexts -> {[group |-> g, blank |-> b] :
                        g \in {None} \cup {Some(v) : v \in SummaryGroups}, b \in BOOLEAN}]

\* df[valid_mask]: the rows with text
ValidTexts(frame) == {i \in DOMAIN frame : ~frame[i].blank}

\* df[aggregation_column].dropna().unique(): the values in the order of
\* their first row
UniqueValues(frame, rows) ==
    LET firsts == SelectSeq([i \in DOMAIN frame |-> i],
                            LAMBDA i : /\ i \in rows
                                       /\ ~IsNone(frame[i].group)
                                       /\ \A j \in rows : j < i => frame[j].group # frame[i].group)
    IN  [k \in DOMAIN firsts |-> Get(frame[firsts[k]].group)]

\* analyze_qualitative_data is called with a frame
InitSummary ==
    /\ ai_steps = <<>>
    /\ joins = <<>>
    /\ quals = <<>>
    /\ tables = (SheetTableName(1) :> SheetData)
    /\ warehouse_meta = <<>>
    /\ history = <<>>
    /\ time = 1
    /\ \E frame \in SummaryFrames :
         run = [op |-> "summarization", phase |-> "called", frame |-> frame,
                valid |-> {}, unique_values |-> <<>>, k |-> 1,
                calls |-> <<>>, summary_rows |-> <<>>, result |-> None]

\* the rows without text are dropped; with none left the ValueError is
\* raised, else the values of the group-by column are collected
summarization_filter ==
    /\ run.op = "summarization" /\ run.phase = "called"
    /\ IF ValidTexts(run.frame) = {}
       THEN run' = [run EXCEPT !.phase = "raised"]
       ELSE run' = [run EXCEPT !.phase = "groups",
                               !.valid = ValidTexts(run.frame),
                               !.unique_values = UniqueValues(run.frame, ValidTexts(run.frame))]
    /\ UNCHANGED <<ai_steps, joins, quals, tables, warehouse_meta, history, time>>

\* one turn of the loop over the groups: the completion call for the
\* group's texts raises, or its summary becomes a row of the output
summarize_group ==
    /\ run.op = "summarization" /\ run.phase = "groups"
    /\ run.k <= Len(run.unique_values)
    /\ LET group_value == run.unique_values[run.k]
           group_texts == {i \in run.valid : run.frame[i].group = Some(group_value)}
           call == [group |-> group_value, texts |-> group_texts]
       IN  \/ run' = [run EXCEPT !.phase = "raised", !.calls = Append(@, call)]
           \/ run' = [run EXCEPT !.k = @ + 1,
                                 !.calls = Append(@, call),
                                 !.summary_rows = Append(@, [group |-> group_value])]
    /\ UNCHANGED <<ai_steps, joins, quals, tables, warehouse_meta, history, time>>

\* summary_df = pd.DataFrame(summary_rows)
summarization_output ==
    /\ run.op = "summarization" /\ run.phase = "groups"
    /\ run.k > Len(run.unique_values)
    /\ run' = [run EXCEPT
                 !.phase = "returned",
                 !.result = Some([success |-> TRUE,
                                  output_data |-> run.summary_rows,
                                  batch_count |-> Len(run.calls)])]
    /\ UNCHANGED <<ai_steps, joins, quals, tables, warehouse_meta, history, time>>

NextSummary ==
    \/ summarization_filter
    \/ summarize_group
    \/ summarization_output
    \/ analyze_qualitative_data_except

SpecSummary == InitSummary /\ [][NextSummary]_vars

\* the values of the group-by column in the rows of the frame
GroupsOf(frame) == {Get(frame[i].group) : i \in {j \in DOMAIN frame : ~IsNone(frame[j].group)}}

\* C25, as stated: when the summarization has succeeded, its output has
\* exactly one row for each value of the group-by column that occurs in the
\* frame it was given, and each completion call received texts of rows of
\* its group only.
OneSummaryRowPerGroup ==
    (/\ run.op = "summarization" /\ run.phase = "returned"
     /\ Get(run.result).success)
    => LET out == Get(run.result).output_data
       IN  /\ {out[k].group : k \in DOMAIN out} = GroupsOf(run.frame)
           /\ \A k, l \in DOMAIN out : out[k].group = out[l].group => k = l
           /\ \A c \in DOMAIN run.calls :
                \A i \in run.calls[c].texts :
                  run.frame[i].group = Some(run.calls[c].group)

-----------------------------------------------------------------------------
(* Steps whose generated code raises, and the message their failure keeps. *)

\* a step whose code raises an exception with a message, a step whose code
\* raises AttributeError(), and a step whose code runs
FailingStepRequests ==
    {StepRequest(None, "raise", <<Ref("sheet", 1)>>),
     StepRequest(None, "raise_attribute", <<Ref("sheet", 1)>>),
     StepRequest(Some(<<"t">>), "raise", <<Ref("sheet", 1)>>),
     StepRequest(Some(<<"t">>), "keep", <<Ref("sheet", 1)>>)}

create_failing_step == create_transformation_step_of(FailingStepRequests)

NextFailure ==
    \/ create_failing_step
    \/ execute_transformation_step_begin
    \/ execute_transformation_step_end

SpecFailure == Init /\ [][NextFailure]_vars

\* the nodes of the canvas that have a status, as rows
StatusRows ==
    {ai_steps[i] : i \in DOMAIN ai_steps} \cup {joins[i] : i \in DOMAIN joins}
        \cup {quals[i] : i \in DOMAIN quals}

\* C27, as stated: a node in status failed has an error message, and the
\* message is not empty.
FailedNodeHasMessage ==
    \A n \in StatusRows :
        n.status = "failed" => ~IsNone(n.error_message) /\ Get(n.error_message) # ""

-----------------------------------------------------------------------------
(* What a run leaves behind once its handler has returned.                 *)

\* C28, as stated: when no handler is in progress, that is after run_node
\* and run_project have returned, with a result or with an error, no node is
\* in status running.
NoNodeLeftRunning ==
    Idle => \A n \in StatusRows : n.status # "running"

\* C29, as stated, for the joins: a join in status completed has no error
\* message.
CompletedJoinHasNoMessage ==
    \A i \in DOMAIN joins :
        joins[i].status = "completed" => IsNone(joins[i].error_message)

\* the same for the transformation steps
CompletedStepHasNoMessage ==
    \A i \in DOMAIN ai_steps :
        ai_steps[i].status = "completed" => IsNone(ai_steps[i].error_message)

-----------------------------------------------------------------------------
(* Deleting nodes and the project: the DROP TABLE statements and the rows. *)

\* conn.execute(text(f"DROP TABLE IF EXISTS {name}")) inside try/except: the
\* name is put into the statement as it is.  Blanks around it are skipped,
\* SQLite compares table names without case, and a name that is not one
\* identifier is a syntax error, which the handler swallows.
DropTableIfExists(tbls, name) ==
    LET nonblank == {i \in DOMAIN name : name[i] # " "}
        lo == CHOOSE i \in nonblank : \A j \in nonblank : i <= j
        hi == CHOOSE i \in nonblank : \A j \in nonblank : i >= j
        identifier == SubSeq(name, lo, hi)
    IN  IF nonblank = {} \/ \E i \in DOMAIN identifier : ~IsWordChar(identifier[i])
        THEN tbls
        ELSE [n \in {m \in DOMAIN tbls : LowerStr(m) # LowerStr(identifier)} |-> tbls[n]]

\* the DROP TABLE of a step: the stored name, else the default pattern
DropStepTable(tbls, step_id, step) ==
    IF ~IsNone(step.output_table_name) /\ Get(step.output_table_name) # <<>>
    THEN DropTableIfExists(tbls, Get(step.output_table_name))
    ELSE DropTableIfExists(tbls, DefaultStepTableName(step_id, step))

\* the DROP TABLE of a join or a text-analytics operation: the stored name,
\* if there is one
DropOutputTable(tbls, row) ==
    IF ~IsNone(row.output_table_name) /\ Get(row.output_table_name) # <<>>
    THEN DropTableIfExists(tbls, Get(row.output_table_name))
    ELSE tbls

RECURSIVE DropStepTables(_, _, _)
DropStepTables(tbls, S, i) ==
    IF i > Len(S) THEN tbls ELSE DropStepTables(DropStepTable(tbls, i, S[i]), S, i + 1)

RECURSIVE DropOutputTables(_, _, _)
DropOutputTables(tbls, rows, i) ==
    IF i > Len(rows) THEN tbls
    ELSE DropOutputTables(DropOutputTable(tbls, rows[i]), rows, i + 1)

\* DELETE /ai-transformations/{step_id}, for the step created last: the id
\* of a deleted last row is the one SQLite gives to the next row
delete_transformation_step ==
    /\ Idle
    /\ ai_steps # <<>>
    /\ LET step_id == Len(ai_steps)
       IN  /\ tables' = DropStepTable(tables, step_id, ai_steps[step_id])
           /\ ai_steps' = SubSeq(ai_steps, 1, step_id - 1)
    /\ UNCHANGED <<joins, quals, warehouse_meta, history, time, run>>

\* DELETE /projects/{project_id}/qualitative-data/{operation_id}, for the
\* operation created last
delete_qualitative_data_operation ==
    /\ Idle
    /\ quals # <<>>
    /\ LET operation_id == Len(quals)
       IN  /\ tables' = DropOutputTable(tables, quals[operation_id])
           /\ quals' = SubSeq(quals, 1, operation_id - 1)
    /\ UNCHANGED <<ai_steps, joins, warehouse_meta, history, time, run>>

\* DELETE /projects/{project_id}: the tables and rows of the steps, the joins
\* and the operations; with the project gone no other handler finds it, so
\* the handler stays the last one
delete_project ==
    /\ Idle
    /\ tables' = DropOutputTables(
                     DropOutputTables(DropStepTables(tables, ai_steps, 1), joins, 1),
                     quals, 1)
    /\ ai_steps' = <<>>
    /\ joins' = <<>>
    /\ quals' = <<>>
    /\ run' = [IdleRun EXCEPT !.op = "delete_project", !.phase = "deleted"]
    /\ UNCHANGED <<warehouse_meta, history, time>>

NextDelete ==
    \/ create_transformation_step
    \/ execute_transformation_step_begin
    \/ execute_transformation_step_end
    \/ create_qualitative_data_operation
    \/ execute_qualitative_data_operation_begin
    \/ execute_qualitative_data_operation_end
    \/ delete_transformation_step
    \/ delete_qualitative_data_operation
    \/ delete_project

SpecDelete == Init /\ [][NextDelete]_vars

\* the rows of a table that a step leaves
RowsLeft(rows_before, rows_after) == DOMAIN rows_before \ DOMAIN rows_after

\* C30, as stated, for transformation steps: when a step's row is deleted, by
\* the step's own delete or with its project, the table its last completed
\* run wrote is not in the warehouse afterwards.
DeletedStepLeavesNoTable ==
    [][\A i \in RowsLeft(ai_steps, ai_steps') :
          ai_steps[i].status = "completed" =>
              ~HasTable(tables', StepTableName(i, ai_steps[i]))]_vars

\* the same for text-analytics operations
DeletedOperationLeavesNoTable ==
    [][\A i \in RowsLeft(quals, quals') :
          ~IsNone(quals[i].actual_table_name) =>
              ~HasTable(tables', Get(quals[i].actual_table_name))]_vars

====
